---- MODULE Spec2Model ----
(***************************************************************************)
(* Model of projectq/ops/_noise.py: the noise-wrapping gate variants, the  *)
(* two-qubit (CNOT) composite and the inject_noise dispatcher.             *)
(*                                                                         *)
(* Objects live in a heap (a sequence; an object's identity is its index). *)
(* Real numbers are scaled: failure rates and random draws are multiples   *)
(* of 1/Denom, angles are multiples of 0.1.                                *)
(***************************************************************************)
EXTENDS Integers, Sequences, FiniteSets, TLC

VARIABLES
    heap,       \* the noise objects constructed so far, by identity
    CNOT_gate,  \* _shortcuts.CNOT._gate: 0 = the plain NOT gate, else a heap id
    pos,        \* position of the stateful "cycle" sampler in its sequence
    last,       \* the last call: operation, receiver, result, argument, return
    cmds,       \* the gate applications the last call forwarded, in order
    nfail,      \* how many failure() decisions the last call made
    raised,     \* the exception the last call ended with ("" = none)
    drawn,      \* the sampler invocations of the last call: raw output, value used
    cap         \* how many objects the heap of this run may hold

vars == <<heap, CNOT_gate, pos, last, cmds, nfail, raised, drawn, cap>>

(***************************************************************************)
(* Bounds of the model.                                                    *)
(***************************************************************************)
MaxObj == 6      \* heap capacity when two-qubit wrappers are built and shared
MaxAngleObj == 3     \* heap capacity when angle wrappers are applied
MaxDispatchObj == 3  \* heap capacity when the dispatcher is exercised
MaxInvObj == 4       \* heap capacity when wrappers are inverted
Denom == 2       \* failure rates and random draws are k/Denom

\* The qubit arguments: every tuple of distinct qubits of the register.
Register == {"q0", "q1", "q2"}
QubitTuples ==
    {q \in UNION {[1..n -> Register] : n \in 0..Cardinality(Register)} :
        \A i, j \in DOMAIN q : i # j => q[i] # q[j]}
Draws == 0..(Denom - 1)          \* the values of random.random(): [0, 1)
Frates == {0, Denom}             \* failure rates: never, always

(***************************************************************************)
(* Gates of the base library, as far as this file touches them.            *)
(*   form "type": a gate class (Rx); "inst": a gate object (H, Rx(0.5),    *)
(*   CNOT); "obj": a noise object of the heap (ref is its id).             *)
(***************************************************************************)
GateDesc(name, form, angle, ref) ==
    [name |-> name, form |-> form, angle |-> angle, ref |-> ref]

NoGate == GateDesc("", "none", 0, 0)
I == GateDesc("I", "inst", 0, 0)
H == GateDesc("H", "inst", 0, 0)
CNOT == GateDesc("CNOT", "inst", 0, 0)
RotationType(name) == GateDesc(name, "type", 0, 0)
Rotation(name, angle) == GateDesc(name, "inst", angle, 0)
ObjRef(h, o) == GateDesc(h[o].cls, "obj", 0, o)

Cmd(gate, qubits) == [gate |-> gate, qubits |-> qubits]

(***************************************************************************)
(* Samplers.  A pdf value is a callable: sel = -1 is the caller's own      *)
(* function fn, sel = 0 / 1 are the closures pdf0 / pdf1 that index its    *)
(* result.  A sample is a sequence: <<v>> a scalar, <<a, b>> a pair,       *)
(* <<>> a call that raised.                                                *)
(***************************************************************************)
Pdf(fn, sel) == [fn |-> fn, sel |-> sel]

Cycle == <<1, -1, 3>>

\* The caller's functions.  gauss2(mu1, mu2) and laplace2(mu1, mu2) return
\* the noise for target and control, respectively; cycle() steps through
\* a fixed sequence.  env is the randomness of this invocation.
UserPdf(fn, args, env) ==
    CASE fn = "gauss2" /\ Len(args) = 2 -> <<args[1] + env[1], args[2] + env[2]>>
      [] fn = "laplace2" /\ Len(args) = 2 ->
            <<args[1] + env[1] + 100, args[2] + env[2] + 100>>
      [] fn = "cycle" /\ Len(args) = 0 -> <<Cycle[(pos % Len(Cycle)) + 1]>>
      [] OTHER -> <<>>

\* pdf(*args): the function itself, or pdf0 / pdf1 = pdf(*args)[0] / [1]
CallPdf(pdf, args, env) ==
    LET raw == UserPdf(pdf.fn, args, env)
    IN  IF pdf.sel = -1 THEN raw
        ELSE IF Len(raw) > pdf.sel THEN <<raw[pdf.sel + 1]>>
        ELSE <<>>

Envs == {<<0, 1>>, <<1, 0>>}

(***************************************************************************)
(* Constructors.                                                           *)
(***************************************************************************)
LocalNoiseBase(cls, pdf, frate, args) ==
    [cls |-> cls, pdf |-> pdf, frate |-> frate, args |-> args,
     gate |-> NoGate, type |-> NoGate, ratio |-> 0, ctl |-> 0]

XNoiseGate(pdf, frate, args) == LocalNoiseBase("XNoiseGate", pdf, frate, args)

NoisyNOTGate(pdf, frate, args) == LocalNoiseBase("NoisyNOTGate", pdf, frate, args)

XYNoiseGate(cls, ratio, pdf, frate, args) ==
    [LocalNoiseBase(cls, pdf, frate, args) EXCEPT !.ratio = ratio]

LocalNoiseGate(cls, gate, pdf, frate, args) ==
    [LocalNoiseBase(cls, pdf, frate, args) EXCEPT !.gate = gate]

NoisyAngleGateFactory(gate_type, pdf, frate, args) ==
    [LocalNoiseBase("NoisyAngleGateFactory", pdf, frate, args) EXCEPT !.type = gate_type]

\* self._type.__name__
get_name(o) == o.type.name

\* self._pdf(*self._args)
noise(o, env) == CallPdf(o.pdf, o.args, env)

\* self._frate and random.random() > 1. - self._frate
failure(o, r) == o.frate # 0 /\ r > Denom - o.frate

\* LocalNoiseBase.update_model on object o of heap h; an omitted (None)
\* parameter is the empty set, a supplied one a singleton.
Supplied(opt, old) == IF opt = {} THEN old ELSE CHOOSE x \in opt : TRUE

LocalNoiseBase_update_model(h, o, pdf, frate, args) ==
    [h EXCEPT ![o] = [@ EXCEPT !.pdf = Supplied(pdf, @),
                               !.frate = Supplied(frate, @),
                               !.args = Supplied(args, @)]]

Opt(S) == {{}} \cup {{x} : x \in S}

(***************************************************************************)
(* The record of the last call.                                            *)
(***************************************************************************)
Call(op, self, res, arg, ret) ==
    [op |-> op, self |-> self, res |-> res, arg |-> arg, ret |-> ret,
     qubits |-> <<>>, upd |-> <<{}, {}, {}>>]

Apply(op, self, qubits) ==
    [Call(op, self, 0, NoGate, NoGate) EXCEPT !.qubits = qubits]

Sample(raw, val) == [raw |-> raw, val |-> val]

Ids == 1..Len(heap)
OfClass(cls) == {o \in Ids : heap[o].cls = cls}

(***************************************************************************)
(* NoisyCNOTGate                                                           *)
(***************************************************************************)
\* NoisyCNOTGate(pdf, frate, *args): the wrapper, then the noisy NOT that
\* replaces CNOT._gate, then the control wobble.
NoisyCNOTGate_init(h, fn, frate, args) ==
    LET w == Len(h) + 1
    IN  h \o << [LocalNoiseGate("NoisyCNOTGate", CNOT, Pdf(fn, -1), frate, args)
                    EXCEPT !.ctl = w + 2],
                NoisyNOTGate(Pdf(fn, 1), frate, args),
                XNoiseGate(Pdf(fn, 0), frate, args) >>

NoisyCNOTGate(fn, frate, args) ==
    /\ Len(heap) + 3 <= cap
    /\ heap' = NoisyCNOTGate_init(heap, fn, frate, args)
    /\ CNOT_gate' = Len(heap) + 2
    /\ last' = Call("NoisyCNOTGate", 0, Len(heap) + 1, NoGate, NoGate)
    /\ cmds' = <<>> /\ nfail' = 0 /\ raised' = "" /\ drawn' = <<>>
    /\ UNCHANGED <<pos, cap>>

NoisyCNOTGate_update_model_partial(h, w, pdf, frate, args) ==
    LET h1 == LocalNoiseBase_update_model(h, w, pdf, frate, args)
    IN  LocalNoiseBase_update_model(h1, CNOT_gate, pdf, frate, args)

\* update both self as well as the underlying gates
NoisyCNOTGate_update_model(h, w, pdf, frate, args) ==
    LET h1 == LocalNoiseBase_update_model(h, w, pdf, frate, args)
        h2 == LocalNoiseBase_update_model(h1, h[w].ctl, pdf, frate, args)
    IN  LocalNoiseBase_update_model(h2, CNOT_gate, pdf, frate, args)

update_model(w, pdf, frate, args) ==
    /\ w \in Ids
    /\ heap' = IF heap[w].cls = "NoisyCNOTGate"
               THEN NoisyCNOTGate_update_model(heap, w, pdf, frate, args)
               ELSE LocalNoiseBase_update_model(heap, w, pdf, frate, args)
    /\ last' = [Call("update_model", w, 0, NoGate, NoGate)
                    EXCEPT !.upd = <<pdf, frate, args>>]
    /\ cmds' = <<>> /\ nfail' = 0 /\ raised' = "" /\ drawn' = <<>>
    /\ UNCHANGED <<CNOT_gate, pos, cap>>

NoisyCNOTGate_cmds_fallthrough(h, w, qubits, r) ==
    (IF failure(h[w], r)
     THEN [i \in 1..Len(qubits) |-> Cmd(I, <<qubits[i]>>)]
     ELSE <<>>)
    \o << Cmd(GateDesc("CNOT", "inst", 0, CNOT_gate), qubits),
          Cmd(ObjRef(h, h[w].ctl), <<qubits[1]>>) >>

\* what NoisyCNOTGate.__or__ forwards once the assertion has passed
NoisyCNOTGate_cmds(h, w, qubits, r) ==
    IF failure(h[w], r)
    THEN [i \in 1..Len(qubits) |-> Cmd(I, <<qubits[i]>>)]
    ELSE << Cmd(GateDesc("CNOT", "inst", 0, CNOT_gate), qubits),
            Cmd(ObjRef(h, h[w].ctl), <<qubits[1]>>) >>

\* random.random() is reached only past the assertion and with a failure
\* rate that is not zero; otherwise the application consumes no draw.
DrawsOf(o, qubits) == IF Len(qubits) = 2 /\ o.frate # 0 THEN Draws ELSE {0}

NoisyCNOTGate_or(w, qubits, r) ==
    /\ w \in OfClass("NoisyCNOTGate")
    /\ IF Len(qubits) # 2
       THEN /\ raised' = "AssertionError"
            /\ cmds' = <<>>
            /\ nfail' = 0
       ELSE /\ raised' = ""
            /\ cmds' = NoisyCNOTGate_cmds(heap, w, qubits, r)
            /\ nfail' = 1
    /\ last' = Apply("NoisyCNOTGate_or", w, qubits)
    /\ drawn' = <<>>
    /\ UNCHANGED <<heap, CNOT_gate, pos, cap>>

(***************************************************************************)
(* Plain construction of one noise object by the caller.                   *)
(***************************************************************************)
construct(obj) ==
    /\ Len(heap) < cap
    /\ heap' = Append(heap, obj)
    /\ last' = Call("construct", 0, Len(heap) + 1, NoGate, NoGate)
    /\ cmds' = <<>> /\ nfail' = 0 /\ raised' = "" /\ drawn' = <<>>
    /\ UNCHANGED <<CNOT_gate, pos, cap>>

(***************************************************************************)
(* Equality and inverse.                                                   *)
(***************************************************************************)
LocalNoiseBase_eq_structural(self, other) == heap[self] = heap[other]

\* LocalNoiseBase.__eq__: return self is other
LocalNoiseBase_eq(self, other) == self = other

\* _metagates.get_inverse on a base gate: a rotation negates its angle, H is
\* its own inverse, and a controlled gate is rebuilt around the inverse of
\* the gate under it, which for CNOT is a noisy NOT of the heap h and is
\* built by NoisyNOTGate.get_inverse.  Returns the heap and the new gate.
metagates_get_inverse(h, cg, gate) ==
    LET under == IF gate.name = "CNOT" THEN cg ELSE gate.ref
    IN  IF gate.name \in {"CNOT", "C"} /\ under # 0
        THEN [heap |-> Append(h, LocalNoiseBase(h[under].cls, h[under].pdf,
                                                h[under].frate, h[under].args)),
              gate |-> GateDesc("C", "inst", 0, Len(h) + 1)]
        ELSE [heap |-> h, gate |-> [gate EXCEPT !.angle = -@]]

\* get_inverse of noise object w: the heap with the inverse appended last.
\*   SelfInverseLocalNoiseBase: self.__class__(pdf, frate, *args)
\*   XYNoiseGate / YXNoiseGate: the other one, same ratio
\*   LocalNoiseGate and its subclasses: LocalNoiseGate(get_inverse(gate), ...)
get_inverse_heap(h, cg, w) ==
    LET o == h[w]
        inv == metagates_get_inverse(h, cg, o.gate)
    IN  IF o.cls \in {"XNoiseGate", "NoisyNOTGate"}
        THEN Append(h, LocalNoiseBase(o.cls, o.pdf, o.frate, o.args))
        ELSE IF o.cls = "XYNoiseGate"
        THEN Append(h, XYNoiseGate("YXNoiseGate", o.ratio, o.pdf, o.frate, o.args))
        ELSE IF o.cls = "YXNoiseGate"
        THEN Append(h, XYNoiseGate("XYNoiseGate", o.ratio, o.pdf, o.frate, o.args))
        ELSE Append(inv.heap,
                    LocalNoiseGate("LocalNoiseGate", inv.gate, o.pdf, o.frate, o.args))

Invertible == Ids \ OfClass("NoisyAngleGateFactory")

get_inverse(w) ==
    /\ w \in Invertible
    /\ Len(get_inverse_heap(heap, CNOT_gate, w)) <= cap
    /\ heap' = get_inverse_heap(heap, CNOT_gate, w)
    /\ last' = Call("get_inverse", w, Len(heap'), NoGate, NoGate)
    /\ cmds' = <<>> /\ nfail' = 0 /\ raised' = "" /\ drawn' = <<>>
    /\ UNCHANGED <<CNOT_gate, pos, cap>>

(***************************************************************************)
(* Angle perturbation.                                                     *)
(***************************************************************************)
\* NoisyAngleGateFactory.__call__(angle)
NoisyAngleGateFactory_call(f, angle) ==
    /\ f \in OfClass("NoisyAngleGateFactory")
    /\ Len(heap) < cap
    /\ heap' = Append(heap, LocalNoiseGate("NoisyAngleGate",
                                           Rotation(heap[f].type.name, angle),
                                           heap[f].pdf, heap[f].frate, heap[f].args))
    /\ last' = Call("NoisyAngleGateFactory_call", f, Len(heap) + 1, NoGate, NoGate)
    /\ cmds' = <<>> /\ nfail' = 0 /\ raised' = "" /\ drawn' = <<>>
    /\ UNCHANGED <<CNOT_gate, pos, cap>>

\* BasicGate.make_tuple_of_qureg on a tuple of single qubits
make_tuple_of_qureg(qubits) == [i \in 1..Len(qubits) |-> <<qubits[i]>>]

\* NoisyAngleGate.__or__: the noise is sampled once, before the loop over
\* the qubits; every qubit gets a new base gate with that one angle.
NoisyAngleGate_or(w, qubits, env) ==
    /\ w \in OfClass("NoisyAngleGate")
    /\ LET gate == heap[w].gate
           raw == UserPdf(heap[w].pdf.fn, heap[w].args, env)
           rnd_angle == noise(heap[w], env)
           quregs == make_tuple_of_qureg(qubits)
       IN  /\ drawn' = <<Sample(raw, rnd_angle)>>
           /\ pos' = IF heap[w].pdf.fn = "cycle" THEN (pos + 1) % Len(Cycle) ELSE pos
           /\ IF Len(rnd_angle) # 1
              THEN raised' = "TypeError" /\ cmds' = <<>>
              ELSE /\ raised' = ""
                   /\ cmds' = [i \in 1..Len(quregs) |->
                                Cmd(Rotation(gate.name, gate.angle + rnd_angle[1]),
                                    quregs[i])]
    /\ last' = Apply("NoisyAngleGate_or", w, qubits)
    /\ nfail' = 0
    /\ UNCHANGED <<heap, CNOT_gate, cap>>

(***************************************************************************)
(* inject_noise                                                            *)
(***************************************************************************)
\* BasicGate.__eq__ between two gates of the base library
BasicGate_eq(a, b) == a = b

\* gate in (g1, g2, ...): the same object, or equal by the gate's __eq__
GateIn(gate, gates) ==
    \E g \in gates :
        \/ gate = g
        \/ IF gate.form = "obj"
           THEN g.form = "obj" /\ LocalNoiseBase_eq(gate.ref, g.ref)
           ELSE BasicGate_eq(gate, g)

RotationTypes == {RotationType("Rx"), RotationType("Ry"), RotationType("Rz")}

inject_noise_wrap_rest(h, cg, gate, fn, frate, args) ==
    IF GateIn(gate, RotationTypes)
    THEN [heap |-> Append(h, NoisyAngleGateFactory(gate, Pdf(fn, -1), frate, args)),
          cg |-> cg, new |-> Len(h) + 1]
    ELSE IF GateIn(gate, {CNOT})
    THEN [heap |-> NoisyCNOTGate_init(h, fn, frate, args),
          cg |-> Len(h) + 2, new |-> Len(h) + 1]
    ELSE [heap |-> Append(h, LocalNoiseGate("LocalNoiseGate", gate, Pdf(fn, -1),
                                            frate, args)),
          cg |-> cg, new |-> Len(h) + 1]

\* inject_noise(gate, pdf, frate, *args): the new heap, the new CNOT._gate,
\* and the id of the object built (0 when the gate itself is returned)
inject_noise_result(h, cg, gate, fn, frate, args) ==
    IF GateIn(gate, RotationTypes)
    THEN [heap |-> Append(h, NoisyAngleGateFactory(gate, Pdf(fn, -1), frate, args)),
          cg |-> cg, new |-> Len(h) + 1]
    ELSE IF GateIn(gate, {CNOT})
    THEN [heap |-> NoisyCNOTGate_init(h, fn, frate, args),
          cg |-> Len(h) + 2, new |-> Len(h) + 1]
    ELSE [heap |-> h, cg |-> cg, new |-> 0]

inject_noise(gate, fn, frate, args) ==
    /\ LET r == inject_noise_result(heap, CNOT_gate, gate, fn, frate, args)
       IN  /\ Len(r.heap) <= cap
           /\ heap' = r.heap
           /\ CNOT_gate' = r.cg
           /\ last' = Call("inject_noise", 0, r.new, gate,
                           IF r.new = 0 THEN gate ELSE ObjRef(r.heap, r.new))
    /\ cmds' = <<>> /\ nfail' = 0 /\ raised' = "" /\ drawn' = <<>>
    /\ UNCHANGED <<pos, cap>>

(***************************************************************************)
(* XNoiseGate.matrix / NoisyNOTGate.matrix: rnd = self.noise()*0.5         *)
(***************************************************************************)
matrix(o, env) ==
    /\ o \in OfClass("XNoiseGate") \cup OfClass("NoisyNOTGate")
    /\ LET raw == UserPdf(heap[o].pdf.fn, heap[o].args, env)
           val == noise(heap[o], env)
       IN  /\ drawn' = <<Sample(raw, val)>>
           /\ raised' = IF Len(val) = 1 THEN "" ELSE "TypeError"
           /\ pos' = IF heap[o].pdf.fn = "cycle" THEN (pos + 1) % Len(Cycle) ELSE pos
    /\ last' = Call("matrix", o, 0, NoGate, NoGate)
    /\ cmds' = <<>> /\ nfail' = 0
    /\ UNCHANGED <<heap, CNOT_gate, cap>>

(***************************************************************************)
(* Specifications.                                                         *)
(***************************************************************************)
Init(n) ==
    /\ heap = <<>>
    /\ CNOT_gate = 0
    /\ pos = 0
    /\ last = Call("", 0, 0, NoGate, NoGate)
    /\ cmds = <<>>
    /\ nfail = 0
    /\ raised = ""
    /\ drawn = <<>>
    /\ cap = n

\* Two-qubit wrappers: built around gauss2, reconfigured to laplace2.
UpdPdfs == Opt({Pdf("laplace2", -1)})
UpdFrates == Opt(Frates)
UpdArgs == Opt({<<20, 30>>})

NextCNOT ==
    \/ \E f \in Frates : NoisyCNOTGate("gauss2", f, <<0, 10>>)
    \/ \E w \in OfClass("NoisyCNOTGate"), p \in UpdPdfs, f \in UpdFrates, a \in UpdArgs :
            update_model(w, p, f, a)
    \/ \E w \in Ids, q \in QubitTuples : \E r \in DrawsOf(heap[w], q) :
            NoisyCNOTGate_or(w, q, r)
    \/ \E o \in Ids, env \in Envs : matrix(o, env)

SpecCNOT == Init(MaxObj) /\ [][NextCNOT]_vars

\* Angle perturbation: inject noise into Rx, build wrappers, apply them.
NextAngle ==
    \/ \E g \in {RotationType("Rx"), RotationType("Rz")} : inject_noise(g, "cycle", 0, <<>>)
    \/ \E f \in Ids : NoisyAngleGateFactory_call(f, 5)
    \/ \E w \in Ids, q \in QubitTuples : NoisyAngleGate_or(w, q, <<0, 0>>)

SpecAngle == Init(MaxAngleObj) /\ [][NextAngle]_vars

\* The dispatcher over every kind of gate, and the factories it returns.
GateInputs ==
    RotationTypes \cup {CNOT, H, Rotation("Rx", 5)} \cup {ObjRef(heap, o) : o \in Ids}

NextDispatch ==
    \/ \E g \in GateInputs, f \in Frates : inject_noise(g, "gauss2", f, <<0, 10>>)
    \/ \E f \in Ids : NoisyAngleGateFactory_call(f, 5)

SpecDispatch == Init(MaxDispatchObj) /\ [][NextDispatch]_vars

\* Every kind of wrapper, reconfigured and inverted.  A YXNoiseGate comes
\* into being as the inverse of an XYNoiseGate, a NoisyAngleGate from a factory.
Constructed ==
    LET p == Pdf("gauss2", -1)
        a == <<0, 10>>
    IN  { XNoiseGate(p, 0, a), NoisyNOTGate(p, 0, a),
          XYNoiseGate("XYNoiseGate", 2, p, 0, a),
          LocalNoiseGate("LocalNoiseGate", H, p, 0, a),
          NoisyAngleGateFactory(RotationType("Rx"), p, 0, a) }

NextInv ==
    \/ \E obj \in Constructed : construct(obj)
    \/ NoisyCNOTGate("gauss2", 0, <<0, 10>>)
    \/ \E f \in Ids : NoisyAngleGateFactory_call(f, 5)
    \/ \E w \in Ids : update_model(w, {}, {Denom}, {})
    \/ \E w \in Ids : get_inverse(w)

SpecInv == Init(MaxInvObj) /\ [][NextInv]_vars

(***************************************************************************)
(* Claims about the two-qubit composite wrapper (under SpecCNOT).          *)
(***************************************************************************)
\* The three noise sources of two-qubit wrapper w in heap h: the wrapper, its
\* control wobble, and the gate under the shared CNOT object (self._gate._gate).
Sources(h, w, cg) == <<w, h[w].ctl, cg>>
Profile(o) == [pdf |-> o.pdf, frate |-> o.frate, args |-> o.args]

Identities(qubits) == <<Cmd(I, <<qubits[1]>>), Cmd(I, <<qubits[2]>>)>>
AppliedCNOT == last.op = "NoisyCNOTGate_or" /\ Len(last.qubits) = 2

\* C1: with failure rate 1 every application to two qubits forwards identity
\* to each of the two qubits, whatever value the random draw returns.
C1_RateOneAlwaysIdentity ==
    (AppliedCNOT /\ heap[last.self].frate = Denom) => cmds = Identities(last.qubits)

\* C5: one update_model call on a two-qubit wrapper leaves all three of its
\* noise sources holding the supplied values, and their previous values for
\* every omitted field.
C5_UpdateReachesAllSources ==
    [][(last'.op = "update_model" /\ last' # last) =>
         \A i \in 1..3 :
            LET s == Sources(heap, last'.self, CNOT_gate)[i]
            IN  heap'[s] = [heap[s] EXCEPT !.pdf = Supplied(last'.upd[1], heap[s].pdf),
                                           !.frate = Supplied(last'.upd[2], heap[s].frate),
                                           !.args = Supplied(last'.upd[3], heap[s].args)]]_vars

\* C5 witness: an update that supplied a sampler and a failure rate but no
\* args has reached the wrapper, its control wobble and its target source.
C5_Witness ==
    /\ last.op = "update_model"
    /\ \A i \in 1..3 :
          LET o == heap[Sources(heap, last.self, CNOT_gate)[i]]
          IN  o.pdf = Pdf("laplace2", -1) /\ o.frate = Denom /\ o.args = <<0, 10>>

\* C6: building another two-qubit wrapper, or updating another one, leaves
\* the three noise sources of every earlier wrapper and the CNOT object as
\* they were.
C6_WrapperOwnsItsProfile ==
    [][\A w \in OfClass("NoisyCNOTGate") :
         (/\ last'.op \in {"NoisyCNOTGate", "update_model"}
          /\ last' # last
          /\ last'.self # w) =>
            /\ CNOT_gate' = CNOT_gate
            /\ \A i \in 1..3 :
                  Profile(heap'[Sources(heap', w, CNOT_gate')[i]])
                    = Profile(heap[Sources(heap, w, CNOT_gate)[i]])]_vars

\* C8: an application either fails its precondition (not two qubits) before
\* anything is decided or forwarded, or decides once and forwards exactly
\* identity, identity or exactly the controlled operation on the pair and
\* then the control wobble on the first qubit.
C8_OneDecisionOneSequence ==
    last.op = "NoisyCNOTGate_or" =>
        IF Len(last.qubits) # 2
        THEN raised = "AssertionError" /\ cmds = <<>> /\ nfail = 0
        ELSE /\ raised = "" /\ nfail = 1
             /\ \/ cmds = Identities(last.qubits)
                \/ cmds = << Cmd(GateDesc("CNOT", "inst", 0, CNOT_gate), last.qubits),
                             Cmd(ObjRef(heap, heap[last.self].ctl), <<last.qubits[1]>>) >>

\* C8 witness: an application to (q1, q0) that did not fail sent the control
\* wobble to q1.
C8_Witness ==
    /\ AppliedCNOT /\ last.qubits = <<"q1", "q0">>
    /\ Len(cmds) = 2 /\ cmds[1].gate.name = "CNOT"
    /\ cmds[2] = Cmd(ObjRef(heap, heap[last.self].ctl), <<"q1">>)

Sampled == last.op = "matrix" /\ Len(drawn) = 1

\* C9: the target noisy-NOT source uses the first component of the sampler's
\* pair and the control wobble the second.
C9_TargetFirstControlSecond ==
    (Sampled /\ raised = "") =>
        /\ heap[last.self].cls = "NoisyNOTGate" => drawn[1].val = <<drawn[1].raw[1]>>
        /\ heap[last.self].cls = "XNoiseGate" => drawn[1].val = <<drawn[1].raw[2]>>

\* C10: whatever update_model calls came before, sampling the target or the
\* control source yields one scalar component, never the whole pair.
C10_SourcesSampleScalars ==
    Sampled => (raised = "" /\ Len(drawn[1].val) = 1)

(***************************************************************************)
(* Claims about angle perturbation (under SpecAngle).                      *)
(***************************************************************************)
\* C2: an application to several qubits invokes the sampler once per qubit,
\* in order, and qubit i receives the base angle plus the i-th sample; with
\* the sampler cycling through 0.1, -0.1, 0.3 and base angle 0.5, three
\* qubits receive 0.6, 0.4, 0.8.
C2_OneSamplePerQubit ==
    (last.op = "NoisyAngleGate_or" /\ raised = "" /\ Len(last.qubits) > 1) =>
        LET gate == heap[last.self].gate
        IN  /\ Len(drawn) = Len(last.qubits)
            /\ Len(cmds) = Len(last.qubits)
            /\ \A i \in 1..Len(last.qubits) :
                  cmds[i] = Cmd(Rotation(gate.name, gate.angle + drawn[i].val[1]),
                               <<last.qubits[i]>>)
            /\ (Len(last.qubits) = 3 /\ gate.angle = 5 /\ drawn[1].val = <<1>>) =>
                  [i \in 1..3 |-> cmds[i].gate.angle] = <<6, 4, 8>>

(***************************************************************************)
(* Claims about the dispatcher (under SpecDispatch).                       *)
(***************************************************************************)
\* C7: inject_noise never raises; a rotation type yields a factory with the
\* type's name, CNOT yields a two-qubit wrapper, and any other gate or gate
\* instance comes back as the very same object, with nothing changed.
C7_InjectSubstitutes ==
    [][(last'.op = "inject_noise" /\ last' # last) =>
         LET g == last'.arg
             r == last'.ret
         IN  /\ raised' = ""
             /\ IF g \in RotationTypes
                THEN /\ r.form = "obj" /\ r.ref = Len(heap) + 1
                     /\ heap'[r.ref].cls = "NoisyAngleGateFactory"
                     /\ get_name(heap'[r.ref]) = g.name
                ELSE IF g = CNOT
                THEN /\ r.form = "obj" /\ r.ref = Len(heap) + 1
                     /\ heap'[r.ref].cls = "NoisyCNOTGate"
                ELSE r = g /\ heap' = heap /\ CNOT_gate' = CNOT_gate]_vars

\* C7 witness: noise was injected into Ry and the factory returned is named Ry.
C7_Witness ==
    /\ last.op = "inject_noise" /\ last.arg = RotationType("Ry")
    /\ last.ret.form = "obj" /\ get_name(heap[last.ret.ref]) = "Ry"

(***************************************************************************)
(* Claims about equality and inverse (under SpecInv).                      *)
(***************************************************************************)
\* C3: a wrapper equals itself and no other wrapper object, whatever was
\* constructed, updated, called or inverted before; in particular it does
\* not equal its own inverse.
C3_EqualityIsIdentity ==
    /\ \A a, b \in Ids : LocalNoiseBase_eq(a, b) <=> (a = b)
    /\ last.op = "get_inverse" =>
          (last.res # last.self /\ ~LocalNoiseBase_eq(last.self, last.res))

\* C3 witness: a wrapper and its inverse are two objects with the same class,
\* sampler, failure rate and args.
C3_Witness ==
    /\ last.op = "get_inverse"
    /\ last.res # last.self
    /\ heap[last.res] = heap[last.self]

InverseClass(cls) ==
    CASE cls = "XYNoiseGate" -> "YXNoiseGate"
      [] cls = "YXNoiseGate" -> "XYNoiseGate"
      [] OTHER -> cls

\* C4: the inverse of a wrapper is a new wrapper of the receiver's kind (the
\* two-axis kinds swapped) with the same sampler, failure rate, args and
\* ratio, around the inverse of the wrapped base gate.
C4_InverseKeepsKind ==
    last.op = "get_inverse" =>
        LET o == heap[last.self]
            inv == heap[last.res]
        IN  /\ last.res # last.self
            /\ inv.cls = InverseClass(o.cls)
            /\ Profile(inv) = Profile(o)
            /\ inv.ratio = o.ratio
            /\ o.gate.name \in {"H", "Rx", "Ry", "Rz"} =>
                  inv.gate = [o.gate EXCEPT !.angle = -@]

====
